---- MODULE Spec2Model ----
(***************************************************************************)
(* Model of the background-removal pipeline of RSconvert:                  *)
(*   lib/actions.ts            processImageUrlAction,                      *)
(*                             processImageUploadAction and their helpers  *)
(*   ai/flows/remove-background.ts  removeBackgroundFromImageUrlFlow       *)
(*   components/image-url-form.tsx  the two useActionState forms and       *)
(*                             their useFormProcessingEffect               *)
(*   ai/flows/generate-image-suggestions.ts (second half)  the Home page:  *)
(*                             images, processedImageIds and handlers      *)
(* The source tree holds several revisions of lib/actions.ts; the variable *)
(* rev says which revision is deployed.  JavaScript values are records     *)
(* tagged by t; JavaScript strings are TLA+ strings, and the string        *)
(* functions (includes, toLowerCase, substring, join) are computed         *)
(* character by character.                                                 *)
(***************************************************************************)
EXTENDS Integers, Sequences, FiniteSets, TLC

VARIABLES
    rev,          \* the revision of lib/actions.ts that is deployed
    formState,    \* per form: the state useActionState holds (the last result)
    pc,           \* per form: where its running action is suspended
    cur,          \* per form: the bookkeeping of its latest submission
    nextUuid,     \* the number of crypto.randomUUID() calls so far, plus one
    submissions,  \* the number of submissions so far
    returned,     \* the ids of the results returned so far, in order
    probe,        \* the classifier probe: function, thrown value, output
    images,       \* Home: the list of processed images shown in the grid
    processedImageIds,  \* Home: the ids handleImageProcessed has seen
    effectDue,    \* per form: a dependency of its effect changed in the last render
    notified,     \* per form: toasts and callbacks fired for its present state
    clears        \* the number of clicks on Clear All Images so far

\* the state of the Home component
home == <<images, processedImageIds, clears>>

\* the state of the client side
ui == <<images, processedImageIds, effectDue, notified, clears>>

vars == <<rev, formState, pc, cur, nextUuid, submissions, returned, probe,
          images, processedImageIds, effectDue, notified, clears>>

----------------------------------------------------------------------------
(* Bounds of the model *)

\* number of form submissions in one behaviour
MaxSubmissions == 2

\* number of clicks on Clear All Images in one behaviour
MaxClears == 1

\* number of bytes of a file whose bytes are spelled out
MaxBytes == 3

----------------------------------------------------------------------------
(* JavaScript values *)

Undefined == [t |-> "undefined"]

Null == [t |-> "null"]

\* a string: the characters s, followed by the base64 text of b64len bytes of
\* the content named b64of (none for an ordinary string)
Str(s) == [t |-> "string", s |-> s, b64of |-> "", b64len |-> 0]

\* the string `${prefix}${buffer.toString('base64')}` for a buffer holding
\* the n bytes of content c
StrB64(prefix, c, n) == [t |-> "string", s |-> prefix, b64of |-> c, b64len |-> n]

\* an Error instance: message string, cause any value (Undefined when not set)
Err(m, c) == [t |-> "error", message |-> m, cause |-> c]

\* a non-Error object: its message, details and cause properties, what String(o)
\* gives, what JSON.stringify(o) gives (json; jsonThrows for a value that
\* cannot be serialised) and whether reading a property throws (hostile)
Obj(m, d, c, s, j, jt, h) ==
    [t |-> "object", message |-> m, details |-> d, cause |-> c, str |-> s,
     json |-> j, jsonThrows |-> jt, hostile |-> h]

\* a File of a form submission: name, size in bytes, declared type and the
\* name of its byte content
File(n, sz, ty, c) ==
    [t |-> "file", name |-> n, size |-> sz, type |-> ty, content |-> c]

IsString(v) == v.t = "string"

IsError(v) == v.t = "error"

IsFile(v) == v.t = "file"

\* JavaScript truthiness (ToBoolean)
Truthy(v) ==
    CASE v.t = "undefined" -> FALSE
      [] v.t = "null" -> FALSE
      [] v.t = "string" -> v.s # "" \/ v.b64len > 0
      [] OTHER -> TRUE

----------------------------------------------------------------------------
(* JavaScript string functions *)

UpperLetters == "ABCDEFGHIJKLMNOPQRSTUVWXYZ"

LowerLetters == "abcdefghijklmnopqrstuvwxyz"

Digits == "0123456789"

CharAt(s, i) == SubSeq(s, i, i)

\* the set of the characters of s
CharsOf(s) == {CharAt(s, i) : i \in 1..Len(s)}

\* String.prototype.includes
Includes(s, k) ==
    \E i \in 1..(Len(s) - Len(k) + 1) : SubSeq(s, i, i + Len(k) - 1) = k

\* String.prototype.startsWith
StartsWith(s, k) == Len(k) <= Len(s) /\ SubSeq(s, 1, Len(k)) = k

UpperSet == CharsOf(UpperLetters)

LowerTable ==
    [c \in UpperSet |->
        CharAt(LowerLetters, CHOOSE i \in 1..Len(UpperLetters) : CharAt(UpperLetters, i) = c)]

LowerChar(c) == IF c \in UpperSet THEN LowerTable[c] ELSE c

\* the characters lo..hi of s in lower case
RECURSIVE LowerRange(_, _, _)
LowerRange(s, lo, hi) ==
    IF lo > hi THEN ""
    ELSE IF lo = hi THEN LowerChar(CharAt(s, lo))
    ELSE LET mid == (lo + hi) \div 2
         IN  LowerRange(s, lo, mid) \o LowerRange(s, mid + 1, hi)

\* String.prototype.toLowerCase
ToLowerCase(s) == LowerRange(s, 1, Len(s))

\* String.prototype.trim (spaces)
RECURSIVE Trim(_)
Trim(s) ==
    IF Len(s) = 0 THEN s
    ELSE IF CharAt(s, 1) = " " THEN Trim(Tail(s))
    ELSE IF CharAt(s, Len(s)) = " " THEN Trim(SubSeq(s, 1, Len(s) - 1))
    ELSE s

\* String.prototype.substring(0, n)
Substring0(s, n) == SubSeq(s, 1, IF n < Len(s) THEN n ELSE Len(s))

\* Array.prototype.join(', ')
RECURSIVE Join(_)
Join(msgs) ==
    IF Len(msgs) = 0 THEN ""
    ELSE IF Len(msgs) = 1 THEN msgs[1]
    ELSE msgs[1] \o ", " \o Join(Tail(msgs))

----------------------------------------------------------------------------
(* new URL(input), as zod's url() check calls it (no base URL) *)

SchemeChars == CharsOf(UpperLetters \o LowerLetters \o Digits \o "+-.")

Alpha == CharsOf(UpperLetters \o LowerLetters)

DigitSet == CharsOf(Digits)

\* code points that may not occur in the host of a special-scheme URL
ForbiddenHostChars == CharsOf(" <>^|[]%\"")

SpecialSchemes == {"http", "https", "ftp", "ws", "wss"}

\* leading and trailing spaces are stripped before parsing
UrlTrim(s) == Trim(s)

\* smallest index >= from of a character of s that is in chars, else Len(s)+1
RECURSIVE FirstOf(_, _, _)
FirstOf(s, chars, from) ==
    IF from > Len(s) THEN Len(s) + 1
    ELSE IF CharAt(s, from) \in chars THEN from
    ELSE FirstOf(s, chars, from + 1)

\* smallest index >= from of a character of s that is not in chars
RECURSIVE FirstNotOf(_, _, _)
FirstNotOf(s, chars, from) ==
    IF from > Len(s) THEN Len(s) + 1
    ELSE IF CharAt(s, from) \notin chars THEN from
    ELSE FirstNotOf(s, chars, from + 1)

\* largest index of the character c in s, 0 when it does not occur
RECURSIVE LastIndexOf(_, _, _)
LastIndexOf(s, c, from) ==
    IF from < 1 THEN 0
    ELSE IF CharAt(s, from) = c THEN from
    ELSE LastIndexOf(s, c, from - 1)

\* index of the ":" that ends the scheme, 0 when the input has no scheme
SchemeEnd(s) ==
    LET e == FirstNotOf(s, SchemeChars, 1)
    IN  IF /\ Len(s) > 0
           /\ CharAt(s, 1) \in Alpha
           /\ e <= Len(s)
           /\ CharAt(s, e) = ":"
        THEN e ELSE 0

\* the scheme of an input that parses, in lower case
UrlScheme(s) ==
    LET u == UrlTrim(s) IN ToLowerCase(SubSeq(u, 1, SchemeEnd(u) - 1))

\* the host[:port] of a special-scheme input: slashes after the scheme are
\* skipped, the authority ends at / \ ? or #, credentials end at the last @
UrlHostPort(u) ==
    LET a0   == FirstNotOf(u, {"/", "\\"}, SchemeEnd(u) + 1)
        a1   == FirstOf(u, {"/", "\\", "?", "#"}, a0) - 1
        auth == SubSeq(u, a0, a1)
    IN  SubSeq(auth, LastIndexOf(auth, "@", Len(auth)) + 1, Len(auth))

\* new URL(s) does not throw
UrlParses(s) ==
    LET u  == UrlTrim(s)
        e  == SchemeEnd(u)
        hp == UrlHostPort(u)
        c  == FirstOf(hp, {":"}, 1)
        host == SubSeq(hp, 1, c - 1)
        port == SubSeq(hp, c + 1, Len(hp))
    IN  /\ e > 0
        /\ ToLowerCase(SubSeq(u, 1, e - 1)) \in SpecialSchemes =>
              /\ host # ""
              /\ \A i \in 1..Len(host) : CharAt(host, i) \notin ForbiddenHostChars
              /\ \A i \in 1..Len(port) : CharAt(port, i) \in DigitSet

----------------
(* The zod schemas of lib/actions.ts.  safeParse gives success and data,  *)
(* or the messages of error.flatten().formErrors.                          *)

Revisions == {"actions", "part_003", "part_004", "part_005"}

\* zod's message for a value of the wrong type
ZodTypeName(v) ==
    CASE v.t = "null" -> "null"
      [] v.t = "undefined" -> "undefined"
      [] OTHER -> "object"

ZodInvalidType(v) ==
    IF v.t = "undefined" THEN "Required"
    ELSE "Expected string, received " \o ZodTypeName(v)

InvalidUrlMessage == "Invalid URL format. Please enter a valid image URL."

\* ImageUrlSchema without its url() check
ImageUrlSchemaAnyString(v) ==
    IF ~IsString(v)
    THEN [success |-> FALSE, data |-> Undefined, formErrors |-> <<ZodInvalidType(v)>>]
    ELSE [success |-> TRUE, data |-> v, formErrors |-> <<>>]

ImageUrlSchema(v) ==
    IF ~IsString(v)
    THEN [success |-> FALSE, data |-> Undefined, formErrors |-> <<ZodInvalidType(v)>>]
    ELSE IF ~UrlParses(v.s)
    THEN [success |-> FALSE, data |-> Undefined, formErrors |-> <<InvalidUrlMessage>>]
    ELSE [success |-> TRUE, data |-> v, formErrors |-> <<>>]

MAX_FILE_SIZE == 5 * 1024 * 1024

ACCEPTED_IMAGE_TYPES == {"image/jpeg", "image/jpg", "image/png", "image/webp"}

FileEmptyMessage == "File is empty."

FileTooLargeMessage == "Max file size is 5MB."

FileTypeMessage == "Only .jpg, .jpeg, .png and .webp formats are supported."

SizeNotEmpty(file) == file.size > 0

\* the size refinement left out
SizeUnchecked(file) == TRUE

\* the size refinement with < in place of <=
SizeBelowLimit(file) == file.size < 5 * 1024 * 1024

SizeWithinLimit(file) == file.size <= MAX_FILE_SIZE

TypeAccepted(file) == file.type \in ACCEPTED_IMAGE_TYPES

\* the message of z.instanceof(File) for a value that is no File
NotAFileMessage(r) ==
    IF r = "part_004" THEN "No file provided or invalid file type."
    ELSE "Input not instance of File"

\* the refinements stopping at the first one that fails
FileReasonsFirstOnly(file) ==
    IF ~SizeNotEmpty(file) THEN <<"File is empty.">>
    ELSE IF file.size > 5 * 1024 * 1024 THEN <<"Max file size is 5MB.">>
    ELSE IF ~TypeAccepted(file)
    THEN <<"Only .jpg, .jpeg, .png and .webp formats are supported.">>
    ELSE <<>>

\* the three refinements of ImageFileSchema, each run on every File
FileReasons(file) ==
    (IF SizeNotEmpty(file) THEN <<>> ELSE <<FileEmptyMessage>>)
    \o (IF SizeWithinLimit(file) THEN <<>> ELSE <<FileTooLargeMessage>>)
    \o (IF TypeAccepted(file) THEN <<>> ELSE <<FileTypeMessage>>)

ImageFileSchema(v, r) ==
    IF ~IsFile(v)
    THEN [success |-> FALSE, data |-> Undefined, formErrors |-> <<NotAFileMessage(r)>>]
    ELSE IF FileReasons(v) # <<>>
    THEN [success |-> FALSE, data |-> Undefined, formErrors |-> FileReasons(v)]
    ELSE [success |-> TRUE, data |-> v, formErrors |-> <<>>]

----------------------------------------------------------------------------
(* Message extraction from a thrown value *)

\* String(v)
JsToString(v) ==
    CASE v.t = "string" -> v.s
      [] v.t = "null" -> "null"
      [] v.t = "undefined" -> "undefined"
      [] v.t = "error" -> IF v.message = "" THEN "Error" ELSE "Error: " \o v.message
      [] OTHER -> v.str

\* the "Nested cause: ..." text both extraction functions build for a cause
CauseMessage(causeError, unstringifiable) ==
    "Nested cause: " \o
        (CASE IsError(causeError) -> causeError.message
           [] IsString(causeError) -> causeError.s
           [] causeError.t = "object" /\ causeError.jsonThrows -> unstringifiable
           [] OTHER -> causeError.json)

\* ai/flows/remove-background.ts: safeStringifyError
safeStringifyError(error) ==
    IF IsError(error)
    THEN IF Truthy(error.cause)
         THEN error.message \o " | "
                 \o CauseMessage(error.cause, "Could not stringify nested cause.")
         ELSE error.message
    ELSE IF IsString(error) THEN error.s
    ELSE IF error.t \in {"null", "undefined"} THEN JsToString(error)
    ELSE IF error.hostile
    THEN "An unknown error occurred, and it could not be stringified."
    ELSE IF IsString(error.message)
    THEN IF Truthy(error.cause)
         THEN error.message.s \o " | "
                 \o CauseMessage(error.cause, "Could not stringify nested cause.")
         ELSE error.message.s
    ELSE IF IsString(error.details) THEN error.details.s
    ELSE IF error.str # "[object Object]" THEN error.str
    ELSE IF error.jsonThrows THEN "Could not stringify error object."
    ELSE error.json

\* lib/actions.ts: extractErrorMessage
extractErrorMessage(error) ==
    IF IsError(error) THEN error.message
    ELSE IF IsString(error) THEN error.s
    ELSE IF error.t \in {"null", "undefined"}
    THEN "An unknown error structure was caught."
    ELSE IF error.hostile
    THEN "Caught a non-standard error that could not be processed."
    ELSE IF Truthy(error.message) THEN JsToString(error.message)
    ELSE IF Truthy(error.details) THEN JsToString(error.details)
    ELSE IF error.str # "[object Object]" THEN error.str
    ELSE "An unknown error structure was caught."

\* the last revision of lib/actions.ts: extractErrorMessage(error, defaultMessage)
extractErrorMessage5(error, defaultMessage) ==
    IF IsError(error)
    THEN IF Truthy(error.cause)
         THEN error.message \o " | "
                 \o CauseMessage(error.cause, "Unstringifyable nested cause.")
         ELSE error.message
    ELSE IF IsString(error) THEN error.s
    ELSE IF error.t \in {"null", "undefined"} THEN JsToString(error)
    ELSE IF error.hostile
    THEN defaultMessage \o " (Error processing the error object itself)"
    ELSE IF IsString(error.message) THEN error.message.s
    ELSE IF IsString(error.details) THEN error.details.s
    ELSE IF error.str # "[object Object]" /\ Trim(error.str) # "" THEN error.str
    ELSE IF error.jsonThrows
    THEN defaultMessage \o " (Could not stringify error details)"
    ELSE error.json

ApiKeyIssueMessage ==
    "Error: API key issue (invalid, missing, or lacking permissions). Please verify your GEMINI_API_KEY and its Google Cloud project configuration (e.g., billing, API enabled)."

SafetyClientMessage ==
    "Error: Image processing was blocked by safety filters. The image might contain content that violates safety policies."

LocationClientMessage ==
    "Error: Your location is not supported for this AI service. The API may have regional restrictions."

NoImageClientMessage ==
    "Error: The AI model did not return the expected image data. The input image might be unsuitable or the service is busy. Try a different image or try again later."

UnexpectedClientMessage ==
    "An unexpected error occurred during image processing. Please check server logs or try again later."

\* message lengths kept by getClientErrorMessage
ClientErrorChars == 150

ClientStringChars == 200

\* lib/actions.ts with the simplified client messages: getClientErrorMessage
getClientErrorMessage(error, actionType) ==
    IF IsError(error)
    THEN IF \/ Includes(error.message, "API key")
            \/ Includes(error.message, "PERMISSION_DENIED")
            \/ Includes(error.message, "Failed precondition")
            \/ Includes(error.message, "IAM")
         THEN ApiKeyIssueMessage
         ELSE IF Includes(ToLowerCase(error.message), "candidate was blocked due to safety")
         THEN SafetyClientMessage
         ELSE IF Includes(ToLowerCase(error.message), "user location is not supported")
         THEN LocationClientMessage
         ELSE IF \/ Includes(ToLowerCase(error.message), "model text not found")
                 \/ Includes(ToLowerCase(error.message), "no media")
         THEN NoImageClientMessage
         ELSE "Processing Error: " \o Substring0(error.message, ClientErrorChars)
                 \o (IF Len(error.message) > ClientErrorChars THEN "..." ELSE "")
    ELSE IF IsString(error)
    THEN IF Len(error.s) > ClientStringChars
         THEN "Processing Error: " \o Substring0(error.s, ClientStringChars) \o "..."
         ELSE "Processing Error: " \o error.s
    ELSE UnexpectedClientMessage

----------------------------------------------------------------------------
(* ai/flows/remove-background.ts: removeBackgroundFromImageUrlFlow.  An    *)
(* outcome of ai.generate is [kind |-> "resolve", media, text] with media  *)
(* Null or [url |-> string], or [kind |-> "throw", value].                 *)

Resolve(media, text) == [kind |-> "resolve", media |-> media, text |-> text]

Throw(value) == [kind |-> "throw", value |-> value]

apiKeyErrorKeywords ==
    <<"API key", "GEMINI_API_KEY", "GOOGLE_API_KEY", "PermissionDenied", "IAM",
      "credentials", "authentication", "authorization", "forbidden">>

\* keyword.toLowerCase() of each keyword
apiKeyErrorKeywordsLower ==
    [i \in 1..Len(apiKeyErrorKeywords) |-> ToLowerCase(apiKeyErrorKeywords[i])]

isApiKeyError(message) ==
    LET lower == ToLowerCase(message)
    IN  \E i \in 1..Len(apiKeyErrorKeywords) :
            Includes(lower, apiKeyErrorKeywordsLower[i])

isSafetyError(message) ==
    Includes(ToLowerCase(message), "candidate was blocked due to safety")

\* (flowError as any)?.cause?.message || (flowError as any)?.message || '...'
SafetyDiagnostic(flowError) ==
    LET causeMsg == IF flowError.t \in {"error", "object"}
                       /\ flowError.cause.t \in {"error", "object"}
                    THEN IF IsError(flowError.cause)
                         THEN Str(flowError.cause.message)
                         ELSE flowError.cause.message
                    ELSE Undefined
        ownMsg   == IF IsError(flowError) THEN Str(flowError.message)
                    ELSE IF flowError.t = "object" THEN flowError.message
                    ELSE Undefined
    IN  IF Truthy(causeMsg) THEN JsToString(causeMsg)
        ELSE IF Truthy(ownMsg) THEN JsToString(ownMsg)
        ELSE "No specific details."

\* FlowErrorMessage with the two tests in the other order: the safety test
\* first, the credential test after it
FlowErrorMessageSafetyFirst(flowError) ==
    LET message == safeStringifyError(flowError)
    IN  IF isSafetyError(message)
        THEN "Image processing was blocked by safety filters. The image might contain content that violates safety policies. Diagnostic text from AI: \""
                \o SafetyDiagnostic(flowError) \o "\""
        ELSE IF isApiKeyError(message)
        THEN "API Key or Permissions Error: " \o message
                \o ". Please ensure your GEMINI_API_KEY is correctly set in your .env file, the server is restarted, and the key has the necessary permissions for the Gemini API."
        ELSE "AI Flow Error: " \o message

\* the message of the Error the catch block of the flow throws
FlowErrorMessage(flowError) ==
    LET message == safeStringifyError(flowError)
    IN  IF isApiKeyError(message)
        THEN "API Key or Permissions Error: " \o message
                \o ". Please ensure your GEMINI_API_KEY is correctly set in your .env file, the server is restarted, and the key has the necessary permissions for the Gemini API."
        ELSE IF isSafetyError(message)
        THEN "Image processing was blocked by safety filters. The image might contain content that violates safety policies. Diagnostic text from AI: \""
                \o SafetyDiagnostic(flowError) \o "\""
        ELSE "AI Flow Error: " \o message

\* the Error thrown inside the try block when the model returned no image
NoMediaError(text) ==
    Err("AI model did not return an image for background removal. Diagnostic text from AI: \""
            \o (IF text # "" THEN text ELSE "No text response.") \o "\"",
        Undefined)

\* what the flow does once ai.generate has settled with outcome o:
\* [kind |-> "return", uri] or [kind |-> "throw", value]
removeBackgroundFromImageUrlFlow(o) ==
    IF o.kind = "resolve"
    THEN IF o.media = Null \/ o.media.url = ""
         THEN Throw(Err(FlowErrorMessage(NoMediaError(o.text)), Undefined))
         ELSE [kind |-> "return", uri |-> Str(o.media.url)]
    ELSE Throw(Err(FlowErrorMessage(o.value), Undefined))

----------------------------------------------------------------------------
(* lib/actions.ts: the two server actions.  Each runs up to its first      *)
(* await in one step and resumes in one step when the awaited promise      *)
(* settles.                                                                *)

Forms == {"url", "upload"}

\* ActionResultState
Result(id, originalUrl, processedUrl, error) ==
    [id |-> id, originalUrl |-> originalUrl, processedUrl |-> processedUrl,
     error |-> error]

\* components/image-url-form.tsx
initialFormState == Result(Undefined, Undefined, Null, Null)

\* the n-th value crypto.randomUUID() returns
randomUUID(n) == Str("uuid-" \o ToString(n))

\* whether the action reuses the id of prevState instead of drawing one
ReusesPrevId(prevState, r) == r # "part_003" /\ Truthy(prevState.id)

\* const uniqueId = prevState?.id || crypto.randomUUID()
uniqueIdOf(prevState, r, n) ==
    IF ReusesPrevId(prevState, r) THEN prevState.id ELSE randomUUID(n)

\* the result processImageUrlAction returns when the schema rejects imageUrl
UrlRejected(uniqueId, imageUrl, formErrors, r) ==
    IF r = "part_003"
    THEN Result(Undefined, Undefined, Undefined, Str(Join(formErrors)))
    ELSE Result(uniqueId,
                IF IsString(imageUrl) THEN imageUrl ELSE Undefined,
                Null,
                Str(Join(formErrors)))

EmptyResultMessage(f, r) ==
    IF r \in {"part_004", "part_005"}
    THEN IF f = "url"
         THEN "AI processing did not return an image. The image might be unsuitable or the service encountered an issue."
         ELSE "AI processing did not return an image from the uploaded file. The image might be unsuitable or the service encountered an issue."
    ELSE IF f = "url"
         THEN "AI processing failed to return an image."
         ELSE "AI processing failed to return an image from the uploaded file."

\* the error text the catch block of an action builds from the thrown value
CaughtMessage(f, r, error) ==
    CASE r = "actions" ->
            (IF f = "url" THEN "Failed to process image: "
                          ELSE "Failed to process uploaded image: ")
                \o extractErrorMessage(error)
      [] r = "part_003" ->
            "Failed to process image: "
                \o (IF IsError(error) THEN error.message
                    ELSE "An unexpected error occurred during background removal.")
      [] r = "part_004" ->
            getClientErrorMessage(error, IF f = "url" THEN "URL" ELSE "File Upload")
      [] OTHER ->
            "Error: " \o extractErrorMessage5(error,
                IF f = "url"
                THEN "Failed to process image due to an internal server error."
                ELSE "Failed to process uploaded image due to an internal server error.")

\* AfterFlow with a catch block that returns no error text
AfterFlowSilentCatch(f, r, uniqueId, sent, flowResult) ==
    IF flowResult.kind = "return" /\ Truthy(flowResult.uri)
    THEN Result(uniqueId, sent, flowResult.uri, Null)
    ELSE Result(uniqueId, sent, Null, Null)

\* AfterFlow returning the image reference in lower case
AfterFlowLowerCased(f, r, uniqueId, sent, flowResult) ==
    IF flowResult.kind = "return"
    THEN IF Truthy(flowResult.uri)
         THEN Result(uniqueId, sent, Str(ToLowerCase(flowResult.uri.s)), Null)
         ELSE Result(uniqueId, sent, Null, Str(EmptyResultMessage(f, r)))
    ELSE Result(uniqueId, sent, Null, Str(CaughtMessage(f, r, flowResult.value)))

\* AfterFlow without the catch block: the action rejects with the value the
\* flow threw instead of returning a result
AfterFlowNoCatch(f, r, uniqueId, sent, flowResult) ==
    IF flowResult.kind = "return"
    THEN IF Truthy(flowResult.uri)
         THEN Result(uniqueId, sent, flowResult.uri, Null)
         ELSE Result(uniqueId, sent, Null, Str(EmptyResultMessage(f, r)))
    ELSE [id |-> uniqueId, originalUrl |-> sent, rejected |-> flowResult.value]

\* the result an action returns once removeBackgroundFromImageUrl settled
\* with flowResult, for the image reference sent
AfterFlow(f, r, uniqueId, sent, flowResult) ==
    IF flowResult.kind = "return"
    THEN IF Truthy(flowResult.uri)
         THEN Result(uniqueId, sent, flowResult.uri, Null)
         ELSE Result(uniqueId, sent, Null, Str(EmptyResultMessage(f, r)))
    ELSE Result(uniqueId, sent, Null, Str(CaughtMessage(f, r, flowResult.value)))

\* originalInputContext of processImageUploadAction
originalInputContext(imageFile) ==
    IF IsFile(imageFile) /\ imageFile.name # "" THEN imageFile.name
    ELSE "Uploaded file"

\* the revision that returns before validation when imageFile is no File
NoFileSelected(imageFile, r) == r = "part_004" /\ ~IsFile(imageFile)

\* the result processImageUploadAction returns without reading the file
UploadRejected(uniqueId, imageFile, formErrors, r) ==
    IF NoFileSelected(imageFile, r)
    THEN Result(uniqueId, Str("No file selected"), Null,
                Str("Please select an image file to upload."))
    ELSE Result(uniqueId,
                IF r = "actions"
                THEN (IF IsFile(imageFile) THEN Str(imageFile.name)
                      ELSE Str("Invalid file"))
                ELSE Str(originalInputContext(imageFile)),
                Null,
                Str(Join(formErrors)))

ReadFailedMessage(r) ==
    CASE r = "part_004" -> "Failed to read the uploaded file. It might be corrupted."
      [] r = "part_005" -> "Failed to read the uploaded file. It might be corrupted or too large for buffer conversion."
      [] OTHER -> "Failed to read the uploaded file."

\* `data:${file.type};base64,${buffer.toString('base64')}`
originalDataUri(file) ==
    StrB64("data:" \o file.type \o ";base64,", file.content, file.size)

----------------------------------------------------------------------------
(* buffer.toString('base64') on byte sequences.  The files of the state machine are too large to hold their  *)
(* bytes; StrB64 stands for the text computed here.                        *)

Base64Alphabet ==
    "ABCDEFGHIJKLMNOPQRSTUVWXYZabcdefghijklmnopqrstuvwxyz0123456789+/"

\* the character of the 6-bit value v
Base64Char(v) == CharAt(Base64Alphabet, v + 1)

\* the four characters of a group of one, two or three bytes
EncodeGroup(g) ==
    LET b1 == g[1]
        b2 == IF Len(g) >= 2 THEN g[2] ELSE 0
        b3 == IF Len(g) >= 3 THEN g[3] ELSE 0
    IN  Base64Char(b1 \div 4)
          \o Base64Char((b1 % 4) * 16 + b2 \div 16)
          \o (IF Len(g) >= 2 THEN Base64Char((b2 % 16) * 4 + b3 \div 64) ELSE "=")
          \o (IF Len(g) >= 3 THEN Base64Char(b3 % 64) ELSE "=")

\* an encoder that writes the whole groups of three bytes only
Base64EncodeWholeGroups(bytes) ==
    LET n == Len(bytes) \div 3
        text[i \in 0..n] ==
            IF i = 0 THEN ""
            ELSE text[i - 1] \o EncodeGroup(SubSeq(bytes, 3 * i - 2, 3 * i))
    IN  text[n]

\* buffer.toString('base64')
Base64Encode(bytes) ==
    LET n == (Len(bytes) + 2) \div 3
        last(i) == IF 3 * i <= Len(bytes) THEN 3 * i ELSE Len(bytes)
        text[i \in 0..n] ==
            IF i = 0 THEN ""
            ELSE text[i - 1] \o EncodeGroup(SubSeq(bytes, 3 * i - 2, last(i)))
    IN  text[n]

\* `data:${file.type};base64,${buffer.toString('base64')}` for a file of
\* the declared type whose arrayBuffer() holds bytes
DataUriOfBytes(type, bytes) == "data:" \o type \o ";base64," \o Base64Encode(bytes)

----------------------------------------------------------------------------
(* Inputs *)

\* what formData.get('imageUrl') can be
UrlFieldValues ==
    { Null, Str(""), Str("example.com/cat.jpg"), Str("/images/cat.jpg"),
      Str("http://"), Str("https://exa mple.com/a.png"),
      Str("https://example.com/cat.jpg"), Str("ftp://files.example.com/a.png"),
      Str("data:text/html;base64,PGI+") }

\* what formData.get('imageFile') can be
FileFieldValues ==
    { Null, Str("cat.png"),
      File("", 0, "application/octet-stream", "none"),
      File("empty.png", 0, "image/png", "none"),
      File("big.png", 6 * 1024 * 1024, "image/png", "bytesBig"),
      File("over.gif", MAX_FILE_SIZE + 1, "image/gif", "bytesOver"),
      File("doc.pdf", 1024, "application/pdf", "bytesDoc"),
      File("edge.jpg", MAX_FILE_SIZE, "image/jpeg", "bytesEdge"),
      File("cat.webp", 1024, "image/webp", "bytesCat") }

\* a plain object with a message, a details field and a toString() text
PlainObject(m, d, s) == Obj(m, d, Undefined, s, "{}", FALSE, FALSE)

\* how ai.generate can settle
GenerateOutcomes ==
    { Resolve([url |-> "data:image/png;base64,iVBORw0KGgo="], ""),
      Resolve(Null, "I cannot edit this image."),
      Resolve([url |-> ""], ""),
      Throw(Err("PERMISSION_DENIED: The caller does not have permission", Undefined)),
      Throw(Err("API key not valid. Please pass a valid API key.", Undefined)),
      Throw(Err("permission_denied: the caller does not have permission", Undefined)),
      Throw(Err("Candidate was blocked due to safety", Undefined)),
      Throw(Err("Prompt was blocked due to safety", Undefined)),
      Throw(Err("User location is not supported for the API use.", Undefined)),
      Throw(Str("quota exceeded")),
      Throw(PlainObject(Str("model overloaded"), Undefined, "[object Object]")),
      Throw(Null),
      Resolve(Null, "Image editing is not enabled for this API key."),
      Throw(Err("403 Forbidden: candidate was blocked due to safety", Undefined)),
      Throw(Err("Failed to fetch https://example.com/diamond.png", Undefined)) }

\* The pure parts of a submission, evaluated once per input: what the
\* schemas answer and what the flow and the action make of each outcome.
UrlParse == [v \in UrlFieldValues |-> ImageUrlSchema(v)]

FileParse == [v \in FileFieldValues, r \in Revisions |-> ImageFileSchema(v, r)]

Settled ==
    [f \in Forms, r \in Revisions, o \in GenerateOutcomes |->
        AfterFlow(f, r, Undefined, Undefined, removeBackgroundFromImageUrlFlow(o))]

\* how the flow settles for each outcome of ai.generate
FlowSettled == [o \in GenerateOutcomes |-> removeBackgroundFromImageUrlFlow(o)]

\* what each action returns when removeBackgroundFromImageUrl resolves
\* with an empty backgroundRemovedDataUri
EmptyFlowResult ==
    [f \in Forms, r \in Revisions |->
        AfterFlow(f, r, Undefined, Undefined, [kind |-> "return", uri |-> Str("")])]

----------------------------------------------------------------------------
(* The state machine *)

\* ai.generate has not settled
NoOutcome == [kind |-> "none"]

NoSubmission ==
    [n |-> 0, input |-> Undefined, uniqueId |-> Undefined, sent |-> Undefined,
     flowCalls |-> 0, reads |-> 0, read |-> "none", outcome |-> NoOutcome,
     steps |-> <<>>, overlap |-> FALSE]

NoProbe == [fn |-> "none", form |-> "url", arg |-> Undefined, out |-> ""]

\* nothing was fired yet for the state a form holds
NotNotified == [toasts |-> 0, callbacks |-> 0]

\* React has run every effect of the last render
EffectsFlushed == \A f \in Forms : ~effectDue[f]

Init ==
    /\ rev \in Revisions
    /\ formState = [f \in Forms |-> initialFormState]
    /\ pc = [f \in Forms |-> "idle"]
    /\ cur = [f \in Forms |-> NoSubmission]
    /\ nextUuid = 1
    /\ submissions = 0
    /\ returned = <<>>
    /\ probe = NoProbe
    /\ images = <<>>
    /\ processedImageIds = {}
    /\ effectDue = [f \in Forms |-> FALSE]
    /\ notified = [f \in Forms |-> NotNotified]
    /\ clears = 0

\* the action returns result: useActionState stores it as the form's state
\* and the form renders again, its effect having a new formState.  React
\* runs the effects of a render before it handles the next result.
Return(f, c, result) ==
    /\ EffectsFlushed
    /\ effectDue' = [effectDue EXCEPT ![f] = TRUE]
    /\ notified' = [notified EXCEPT ![f] = NotNotified]
    /\ UNCHANGED home
    /\ formState' = [formState EXCEPT ![f] = result]
    /\ pc' = [pc EXCEPT ![f] = "idle"]
    /\ cur' = [cur EXCEPT ![f] = [c EXCEPT !.steps = Append(c.steps, "return")]]
    /\ returned' = Append(returned, result.id)

\* CallFlow without the await: the flow is started and the action returns
\* at once, while ai.generate is still running
CallFlowDetached(f, c, ref) ==
    Return(f, [c EXCEPT !.sent = ref, !.flowCalls = c.flowCalls + 1,
                        !.steps = Append(c.steps, "generate")],
           Result(c.uniqueId, ref, Null, Str("Processing started.")))

\* the action calls removeBackgroundFromImageUrl({imageUrl: ref}), which
\* enters the flow and calls ai.generate; the action awaits the flow
CallFlow(f, c, ref) ==
    /\ pc' = [pc EXCEPT ![f] = "awaitGenerate"]
    /\ cur' = [cur EXCEPT ![f] =
                 [c EXCEPT !.sent = ref, !.flowCalls = c.flowCalls + 1,
                           !.steps = Append(c.steps, "generate")]]
    /\ UNCHANGED <<formState, returned, ui>>

\* a submission of the URL form: processImageUrlAction up to its await
processImageUrlAction(imageUrl) ==
    LET prevState == formState["url"]
        validatedFields == UrlParse[imageUrl]
        drawsId == ~ReusesPrevId(prevState, rev)
                     /\ (rev = "part_003" => validatedFields.success)
        uniqueId == uniqueIdOf(prevState, rev, nextUuid)
        c == [n |-> cur["url"].n + 1, input |-> imageUrl, uniqueId |-> uniqueId,
              sent |-> Undefined, flowCalls |-> 0, reads |-> 0, read |-> "none",
              outcome |-> NoOutcome, steps |-> <<"validate">>,
              overlap |-> pc["upload"] # "idle"]
    IN  /\ pc["url"] = "idle"
        /\ submissions < MaxSubmissions
        /\ submissions' = submissions + 1
        /\ nextUuid' = IF drawsId THEN nextUuid + 1 ELSE nextUuid
        /\ IF validatedFields.success
           THEN CallFlow("url", c, validatedFields.data)
           ELSE Return("url", c,
                       UrlRejected(uniqueId, imageUrl, validatedFields.formErrors, rev))
        /\ UNCHANGED <<rev, probe>>

\* a submission of the upload form: processImageUploadAction up to its
\* await of file.arrayBuffer()
processImageUploadAction(imageFile) ==
    LET prevState == formState["upload"]
        validatedFile == FileParse[imageFile, rev]
        uniqueId == uniqueIdOf(prevState, rev, nextUuid)
        c == [n |-> cur["upload"].n + 1, input |-> imageFile, uniqueId |-> uniqueId,
              sent |-> Undefined, flowCalls |-> 0, reads |-> 0, read |-> "none",
              outcome |-> NoOutcome, steps |-> <<"validate">>,
              overlap |-> pc["url"] # "idle"]
    IN  /\ rev # "part_003"
        /\ pc["upload"] = "idle"
        /\ submissions < MaxSubmissions
        /\ submissions' = submissions + 1
        /\ nextUuid' = IF ReusesPrevId(prevState, rev) THEN nextUuid ELSE nextUuid + 1
        /\ IF ~NoFileSelected(imageFile, rev) /\ validatedFile.success
           THEN /\ pc' = [pc EXCEPT !["upload"] = "awaitRead"]
                /\ cur' = [cur EXCEPT !["upload"] =
                             [c EXCEPT !.reads = 1, !.steps = Append(c.steps, "read")]]
                /\ UNCHANGED <<formState, returned, ui>>
           ELSE Return("upload", c,
                       UploadRejected(uniqueId, imageFile, validatedFile.formErrors, rev))
        /\ UNCHANGED <<rev, probe>>

\* ReadSettles without the return in the catch block: after a failed read
\* the action goes on with the empty originalDataUri
ReadSettlesIgnoringFailure(ok) ==
    LET c == [cur["upload"] EXCEPT !.read = IF ok THEN "ok" ELSE "failed"]
        file == c.input
    IN  /\ pc["upload"] = "awaitRead"
        /\ CallFlow("upload", c, IF ok THEN originalDataUri(file) ELSE Str(""))
        /\ UNCHANGED <<rev, nextUuid, submissions, probe>>

\* file.arrayBuffer() settles: the data URI is built and the flow called, or
\* the read failed and the action returns
ReadSettles(ok) ==
    LET c == [cur["upload"] EXCEPT !.read = IF ok THEN "ok" ELSE "failed"]
        file == c.input
    IN  /\ pc["upload"] = "awaitRead"
        /\ IF ok
           THEN CallFlow("upload", c, originalDataUri(file))
           ELSE Return("upload", c,
                       Result(c.uniqueId, Str(file.name), Null,
                              Str(ReadFailedMessage(rev))))
        /\ UNCHANGED <<rev, nextUuid, submissions, probe>>

\* whether the catch block of the flow runs for outcome o of ai.generate
FlowCatches(o) ==
    IF o.kind = "throw" THEN TRUE ELSE o.media = Null \/ o.media.url = ""

\* the steps of a submission once ai.generate settled: a failure is
\* classified by the catch block of the flow before the action returns
StepsAfter(steps, o) ==
    IF FlowCatches(o) THEN Append(steps, "classify") ELSE steps

\* GenerateSettles with one retry: after a failure of the first call the
\* flow is called again with the same image reference
GenerateSettlesRetrying(f, o) ==
    LET c == cur[f]
    IN  /\ pc[f] = "awaitGenerate"
        /\ IF FlowCatches(o) /\ c.flowCalls < 2
           THEN CallFlow(f, [c EXCEPT !.outcome = o], c.sent)
           ELSE Return(f, [c EXCEPT !.outcome = o, !.steps = StepsAfter(c.steps, o)],
                       [Settled[f, rev, o] EXCEPT !.id = c.uniqueId,
                                                  !.originalUrl = c.sent])
        /\ UNCHANGED <<rev, nextUuid, submissions, probe>>

\* GenerateSettles with the image reference kept in one module-level
\* variable that both actions write: the result echoes the reference of
\* the other submission when that one is in flight too
GenerateSettlesSharedReference(f, o) ==
    LET c == cur[f]
        other == CHOOSE g \in Forms : g # f
        lastSent == IF pc[other] = "awaitGenerate" THEN cur[other].sent ELSE c.sent
    IN  /\ pc[f] = "awaitGenerate"
        /\ Return(f, [c EXCEPT !.outcome = o, !.steps = StepsAfter(c.steps, o)],
                  [Settled[f, rev, o] EXCEPT !.id = c.uniqueId,
                                             !.originalUrl = lastSent])
        /\ UNCHANGED <<rev, nextUuid, submissions, probe>>

\* GenerateSettles with a flow that does not settle when ai.generate fails:
\* the rejection is dropped and the awaiting action is never resumed
GenerateSettlesDroppingFailure(f, o) ==
    LET c == cur[f]
    IN  /\ pc[f] = "awaitGenerate"
        /\ IF FlowCatches(o)
           THEN /\ pc' = [pc EXCEPT ![f] = "lost"]
                /\ cur' = [cur EXCEPT ![f] = [c EXCEPT !.outcome = o]]
                /\ UNCHANGED <<formState, returned, ui>>
           ELSE Return(f, [c EXCEPT !.outcome = o, !.steps = StepsAfter(c.steps, o)],
                       [Settled[f, rev, o] EXCEPT !.id = c.uniqueId,
                                                  !.originalUrl = c.sent])
        /\ UNCHANGED <<rev, nextUuid, submissions, probe>>

\* ai.generate settles with outcome o: the flow finishes and the awaiting
\* action builds and returns its result
GenerateSettles(f, o) ==
    LET c == cur[f]
    IN  /\ pc[f] = "awaitGenerate"
        /\ Return(f, [c EXCEPT !.outcome = o, !.steps = StepsAfter(c.steps, o)],
                  [Settled[f, rev, o] EXCEPT !.id = c.uniqueId,
                                             !.originalUrl = c.sent])
        /\ UNCHANGED <<rev, nextUuid, submissions, probe>>

----------------------------------------------------------------------------
(* The client side: useFormProcessingEffect of each form and the Home page *)

\* ImageItem
ImageItem(id, originalUrl, processedUrl) ==
    [id |-> id, originalUrl |-> originalUrl, processedUrl |-> processedUrl]

\* the branch the effect takes for form state st: which toast it shows
EffectBranch(st) ==
    IF ~Truthy(st.id) THEN "none"
    ELSE IF Truthy(st.error) THEN "error"
    ELSE IF Truthy(st.originalUrl) /\ Truthy(st.processedUrl) THEN "success"
    ELSE IF Truthy(st.originalUrl) THEN "incomplete"
    ELSE "none"

\* prevImages.filter(img => img.id !== id)
WithoutId(prevImages, id) == SelectSeq(prevImages, LAMBDA img : img.id # id)

\* prevImages.findIndex(img => img.id === id), counted from 1; 0 for -1
FindIndex(prevImages, id) ==
    IF \E i \in 1..Len(prevImages) : prevImages[i].id = id
    THEN CHOOSE i \in 1..Len(prevImages) :
            /\ prevImages[i].id = id
            /\ \A j \in 1..(i - 1) : prevImages[j].id # id
    ELSE 0

\* handleImageProcessed(newImage) of the callback that closed over the set
\* closureIds, applied to the Home state h = [images, ids, added]: the
\* updater of setImages and the setProcessedImageIds call inside it
handleImageProcessed(closureIds, h, newImage) ==
    LET existingImageIndex == FindIndex(h.images, newImage.id)
    IN  IF newImage.id \in closureIds /\ existingImageIndex # 0
        THEN [h EXCEPT !.images = [h.images EXCEPT ![existingImageIndex] = newImage]]
        ELSE [images |-> <<newImage>> \o WithoutId(h.images, newImage.id),
              ids    |-> h.ids \union {newImage.id},
              added  |-> TRUE]

\* the effect of form f runs, if one of its dependencies changed, on the
\* Home state h
RunEffect(f, h) ==
    IF effectDue[f] /\ EffectBranch(formState[f]) = "success"
    THEN handleImageProcessed(processedImageIds, h,
             ImageItem(formState[f].id, formState[f].originalUrl,
                       formState[f].processedUrl))
    ELSE h

\* what the effect of form f adds to the count of toasts and callbacks
Fired(f) ==
    LET branch == IF effectDue[f] THEN EffectBranch(formState[f]) ELSE "none"
    IN  [toasts    |-> notified[f].toasts + (IF branch = "none" THEN 0 ELSE 1),
         callbacks |-> notified[f].callbacks + (IF branch = "success" THEN 1 ELSE 0)]

\* React runs the effects of the last render, the one of the URL form
\* first, and renders Home with the queued state updates.  A new
\* processedImageIds gives handleImageProcessed a new identity, which is a
\* dependency of both effects.
FlushEffects ==
    LET h0 == [images |-> images, ids |-> processedImageIds, added |-> FALSE]
        h2 == RunEffect("upload", RunEffect("url", h0))
    IN  /\ ~EffectsFlushed
        /\ notified' = [f \in Forms |-> Fired(f)]
        /\ images' = h2.images
        /\ processedImageIds' = h2.ids
        /\ effectDue' = [f \in Forms |-> h2.added]
        /\ UNCHANGED <<rev, formState, pc, cur, nextUuid, submissions, returned,
                       probe, clears>>

\* a click on Clear All Images, shown while the list is not empty; the new
\* Set is a new processedImageIds
handleClearImages ==
    /\ EffectsFlushed
    /\ Len(images) > 0
    /\ clears < MaxClears
    /\ clears' = clears + 1
    /\ images' = <<>>
    /\ processedImageIds' = {}
    /\ effectDue' = [f \in Forms |-> TRUE]
    /\ UNCHANGED <<rev, formState, pc, cur, nextUuid, submissions, returned,
                   probe, notified>>

Next ==
    \/ \E v \in UrlFieldValues : processImageUrlAction(v)
    \/ \E v \in FileFieldValues : processImageUploadAction(v)
    \/ \E ok \in BOOLEAN : ReadSettles(ok)
    \/ \E f \in Forms, o \in GenerateOutcomes : GenerateSettles(f, o)
    \/ FlushEffects
    \/ handleClearImages

Spec == Init /\ [][Next]_vars

\* Spec under the assumption that every issued external call settles:
\* file.arrayBuffer() and ai.generate of each form eventually settle, and
\* React runs the effects of a render
SpecLive ==
    /\ Spec
    /\ WF_vars(\E ok \in BOOLEAN : ReadSettles(ok))
    /\ \A f \in Forms : WF_vars(\E o \in GenerateOutcomes : GenerateSettles(f, o))
    /\ WF_vars(FlushEffects)

----------------------------------------------------------------------------
(* The classifier probe: each message extraction function applied to each  *)
(* kind of value a failed call can throw.                                  *)

\* a text longer than both truncation lengths of getClientErrorMessage
LongText ==
    LET w == "upstream connect error or disconnect before headers; "
    IN  w \o w \o w \o w \o "reset"

ThrownValues ==
    { Err("PERMISSION_DENIED: The caller does not have permission", Undefined),
      Err("API key not valid. Please pass a valid API key.", Undefined),
      Err("fetch failed",
          Err("getaddrinfo ENOTFOUND generativelanguage.googleapis.com", Undefined)),
      Err("request failed", Str("socket hang up")),
      Err("fetch failed",
          Err("connect ECONNREFUSED 127.0.0.1:443",
              Err("certificate has expired", Undefined))),
      Err("upstream failure",
          Obj(Str("socket hang up"), Undefined, Undefined, "[object Object]",
              "{\"message\":\"socket hang up\"}", FALSE, FALSE)),
      Obj(Str("model overloaded"), Undefined, Err("backend unavailable", Undefined),
          "[object Object]", "{\"message\":\"model overloaded\",\"cause\":{}}",
          FALSE, FALSE),
      Err("upstream failure",
          Obj(Undefined, Undefined, Undefined, "[object Object]", "{\"code\":503}",
              FALSE, FALSE)),
      Err("upstream failure",
          Obj(Undefined, Undefined, Undefined, "[object Object]", "", TRUE, FALSE)),
      Err(LongText, Undefined),
      Err("", Undefined),
      Str(""),
      Str("quota exceeded"),
      Str(LongText),
      Null,
      Undefined,
      PlainObject(Str("model overloaded"), Undefined, "[object Object]"),
      PlainObject(Str(""), Undefined, "[object Object]"),
      PlainObject(Undefined, Str("Deadline exceeded"), "[object Object]"),
      PlainObject(Undefined, Undefined, "[object Object]"),
      PlainObject(Undefined, Undefined, "CustomFailure: boom"),
      PlainObject(Undefined, Undefined, ""),
      Obj(Undefined, Undefined, Undefined, "[object Object]", "", TRUE, FALSE),
      Obj(Undefined, Undefined, Undefined, "[object Object]", "", FALSE, TRUE) }

ProbeFunctions ==
    { "safeStringifyError", "extractErrorMessage", "extractErrorMessage5",
      "getClientErrorMessage" }

\* fn(v), for the URL form (f = "url") or the upload form
Extracted(fn, f, v) ==
    CASE fn = "safeStringifyError" -> safeStringifyError(v)
      [] fn = "extractErrorMessage" -> extractErrorMessage(v)
      [] fn = "extractErrorMessage5" ->
            extractErrorMessage5(v,
                IF f = "url"
                THEN "Failed to process image due to an internal server error."
                ELSE "Failed to process uploaded image due to an internal server error.")
      [] OTHER -> getClientErrorMessage(v, IF f = "url" THEN "URL" ELSE "File Upload")

\* a failed call throws v and fn extracts its message
Classify(fn, f, v) ==
    /\ probe' = [fn |-> fn, form |-> f, arg |-> v, out |-> Extracted(fn, f, v)]
    /\ UNCHANGED <<rev, formState, pc, cur, nextUuid, submissions, returned, ui>>

NextClassifier ==
    \E fn \in ProbeFunctions, f \in Forms, v \in ThrownValues : Classify(fn, f, v)

SpecClassifier == Init /\ [][NextClassifier]_vars

----------------------------------------------------------------------------
(* The normalizer probe: the data URI of processImageUploadAction built    *)
(* for small files whose bytes are spelled out.                            *)

\* the byte values the files are made of
ByteValues == {0, 77, 128, 250, 255}

RECURSIVE ByteSeqs(_)
\* the byte sequences of length n
ByteSeqs(n) ==
    IF n = 0 THEN {<<>>}
    ELSE {Append(b, v) : b \in ByteSeqs(n - 1), v \in ByteValues}

\* the contents of the valid files: one byte up to MaxBytes bytes
FileContents == UNION {ByteSeqs(n) : n \in 1..MaxBytes}

\* a valid file of a declared type was submitted to a revision that has
\* the upload action, and its bytes were read
InitNormalizer ==
    /\ rev \in Revisions \ {"part_003"}
    /\ formState = [f \in Forms |-> initialFormState]
    /\ pc = [f \in Forms |-> "idle"]
    /\ cur = [f \in Forms |-> NoSubmission]
    /\ nextUuid = 1
    /\ submissions = 0
    /\ returned = <<>>
    /\ probe \in { [fn |-> "arrayBuffer", form |-> "upload",
                    arg |-> [type |-> type, bytes |-> bytes], out |-> ""] :
                   type \in ACCEPTED_IMAGE_TYPES, bytes \in FileContents }
    /\ images = <<>>
    /\ processedImageIds = {}
    /\ effectDue = [f \in Forms |-> FALSE]
    /\ notified = [f \in Forms |-> NotNotified]
    /\ clears = 0

\* processImageUploadAction builds originalDataUri from the bytes read
BuildDataUri ==
    /\ probe.fn = "arrayBuffer"
    /\ probe' = [probe EXCEPT !.fn = "originalDataUri",
                              !.out = DataUriOfBytes(probe.arg.type, probe.arg.bytes)]
    /\ UNCHANGED <<rev, formState, pc, cur, nextUuid, submissions, returned, ui>>

NextNormalizer == BuildDataUri

SpecNormalizer == InitNormalizer /\ [][NextNormalizer]_vars

----------------------------------------------------------------------------
(* Properties *)

\* form f holds a result that one of the actions returned
HasResult(f) == cur[f].n > 1 \/ (cur[f].n = 1 /\ pc[f] = "idle")

\* the latest submission of form f has returned
Completed(f) == cur[f].n > 0 /\ pc[f] = "idle"

\* C1: every result an action returns has exactly one of processedUrl and
\* error present.
C1_ExactlyOneOfProcessedAndError ==
    \A f \in Forms :
        HasResult(f) =>
            (Truthy(formState[f].processedUrl) # Truthy(formState[f].error))

\* a rejection on the URL form next to a success on the upload form
C1_Witness ==
    /\ Completed("url") /\ cur["url"].flowCalls = 0
    /\ Truthy(formState["url"].error)
    /\ Completed("upload") /\ cur["upload"].flowCalls = 1
    /\ Truthy(formState["upload"].processedUrl)

\* C2: no two submissions return the same id.
C2_IdsAreFresh ==
    \A i, j \in 1..Len(returned) :
        (i < j /\ Truthy(returned[i]) /\ Truthy(returned[j])) =>
            returned[i] # returned[j]

\* the submitted imageUrl value is an absolute, well-formed URL
IsAbsoluteUrl(v) == IsString(v) /\ UrlParses(v.s)

\* C3: a submitted imageUrl that is no absolute, well-formed URL (or is
\* missing) is answered with a validation error, and the flow is not called
\* during that submission.
C3_InvalidUrlNeverReachesFlow ==
    (cur["url"].n > 0 /\ ~IsAbsoluteUrl(cur["url"].input)) =>
        /\ Completed("url")
        /\ cur["url"].flowCalls = 0
        /\ cur["url"].steps = <<"validate", "return">>
        /\ formState["url"].error
              \in {Str(InvalidUrlMessage), Str(ZodInvalidType(cur["url"].input))}
        /\ ~Truthy(formState["url"].processedUrl)

\* a relative path was submitted and rejected
C3_Witness ==
    /\ Completed("url")
    /\ cur["url"].input = Str("/images/cat.jpg")
    /\ formState["url"].error = Str(InvalidUrlMessage)

\* the payload is a File within the size and type limits
FileIsValid(v) ==
    /\ IsFile(v)
    /\ 0 < v.size /\ v.size <= 5 * 1024 * 1024
    /\ v.type \in {"image/jpeg", "image/jpg", "image/png", "image/webp"}

\* C4: when the uploaded file fails validation the action returns before
\* the file is read and before the flow is called, and the error of an
\* oversize file mentions the 5MB limit.
C4_InvalidFileReturnsBeforeRead ==
    (cur["upload"].n > 0 /\ ~FileIsValid(cur["upload"].input)) =>
        /\ Completed("upload")
        /\ cur["upload"].reads = 0
        /\ cur["upload"].flowCalls = 0
        /\ cur["upload"].steps = <<"validate", "return">>
        /\ Truthy(formState["upload"].error)
        /\ (IsFile(cur["upload"].input) /\ cur["upload"].input.size > 5 * 1024 * 1024) =>
              Includes(formState["upload"].error.s, "5MB")

\* the 6 MiB PNG was submitted and rejected
C4_Witness ==
    /\ Completed("upload")
    /\ cur["upload"].input = File("big.png", 6 * 1024 * 1024, "image/png", "bytesBig")
    /\ formState["upload"].error = Str("Max file size is 5MB.")

\* C5: the file validator accepts a payload exactly when it is a File with
\* 0 < size <= 5 MiB and a declared type of the accepted list.
C5_FileAcceptedIff ==
    cur["upload"].n > 0 =>
        (cur["upload"].reads = 1 <=> FileIsValid(cur["upload"].input))

\* the file of exactly 5 MiB was accepted and read
C5_Witness ==
    /\ cur["upload"].n > 0
    /\ cur["upload"].input.t = "file"
    /\ cur["upload"].input.size = 5 * 1024 * 1024
    /\ cur["upload"].reads = 1

\* the reasons the three rules give for a File, in rule order
ExpectedReasons(v) ==
    (IF v.size = 0 THEN <<"File is empty.">> ELSE <<>>)
    \o (IF v.size > 5 * 1024 * 1024 THEN <<"Max file size is 5MB.">> ELSE <<>>)
    \o (IF v.type \in {"image/jpeg", "image/jpg", "image/png", "image/webp"}
        THEN <<>>
        ELSE <<"Only .jpg, .jpeg, .png and .webp formats are supported.">>)

\* C6: for a File every failing rule contributes one reason and the error
\* is those reasons joined by ", " in rule order; an empty file always
\* yields "File is empty.".
C6_AllFileReasonsReported ==
    (Completed("upload") /\ IsFile(cur["upload"].input)
        /\ ~FileIsValid(cur["upload"].input)) =>
        /\ formState["upload"].error = Str(Join(ExpectedReasons(cur["upload"].input)))
        /\ cur["upload"].input.size = 0 =>
              Includes(formState["upload"].error.s, "File is empty.")

\* an empty file of an unsupported type was rejected with both reasons
C6_Witness ==
    /\ Completed("upload")
    /\ IsFile(cur["upload"].input)
    /\ cur["upload"].input.size = 0
    /\ cur["upload"].input.type = "application/octet-stream"
    /\ formState["upload"].error
          = Str("File is empty., Only .jpg, .jpeg, .png and .webp formats are supported.")

\* C7: every rejected imageUrl input, an absent field included, is answered
\* with the one reason that begins with "Invalid URL format.".
C7_SingleInvalidUrlReason ==
    (Completed("url") /\ cur["url"].flowCalls = 0) =>
        /\ StartsWith(formState["url"].error.s, "Invalid URL format.")
        /\ ~Includes(formState["url"].error.s, ", ")

\* the scheme of an image reference, "" when it has none
RefScheme(ref) == IF SchemeEnd(UrlTrim(ref.s)) > 0 THEN UrlScheme(ref.s) ELSE ""

\* the MIME type of a data URI data:<mime>;base64,<payload>
DataUriMime(ref) ==
    LET u == UrlTrim(ref.s)
        e == FirstOf(u, {";", ","}, 6)
    IN  SubSeq(u, 6, e - 1)

\* the number of bytes the base64 payload of a data URI decodes to
DataUriBytes(ref) ==
    LET u == UrlTrim(ref.s)
        c == FirstOf(u, {","}, 6)
    IN  ((Len(u) - c) * 3) \div 4 + ref.b64len

\* an Image Reference as the data model defines it
IsImageReference(ref) ==
    \/ RefScheme(ref) \in {"http", "https"}
    \/ /\ RefScheme(ref) = "data"
       /\ DataUriMime(ref) \in {"image/jpeg", "image/jpg", "image/png", "image/webp"}
       /\ DataUriBytes(ref) <= 5 * 1024 * 1024

\* C8: every image reference passed to the flow, on either entry point, is
\* an HTTP(S) URL or a data URI of an accepted type of at most 5 MiB.
C8_OnlyImageReferencesReachFlow ==
    \A f \in Forms : cur[f].flowCalls > 0 => IsImageReference(cur[f].sent)

\* C9: each message extraction function returns a non-empty string for
\* every thrown value.
C9_ExtractionNeverEmpty == probe.fn # "none" => probe.out # ""

\* the message tells the user about the API key or its permissions
IsCredentialMessage(s) ==
    \/ Includes(ToLowerCase(s), "api key")
    \/ Includes(ToLowerCase(s), "permissions")

\* ai.generate of the latest submission of form f threw an Error whose
\* message contains text
ThrewErrorContaining(f, text) ==
    /\ Completed(f)
    /\ cur[f].outcome.kind = "throw"
    /\ IsError(cur[f].outcome.value)
    /\ Includes(cur[f].outcome.value.message, text)

\* C10: when ai.generate throws an error containing PERMISSION_DENIED for a
\* valid URL, the result has no processedUrl and its error is in the
\* credential/permission category.
C10_PermissionDeniedIsCredentialError ==
    ThrewErrorContaining("url", "PERMISSION_DENIED") =>
        /\ ~Truthy(formState["url"].processedUrl)
        /\ IsCredentialMessage(formState["url"].error.s)

\* the text of the value ai.generate threw
ThrownText(v) ==
    IF IsError(v) THEN v.message
    ELSE IF IsString(v) THEN v.s
    ELSE IF v.t = "object" /\ IsString(v.message) THEN v.message.s
    ELSE ""

\* ai.generate of the latest submission of form f threw, and that
\* submission has returned
Failed(f) == Completed(f) /\ cur[f].outcome.kind = "throw"

CredentialTerms ==
    {"api key", "credentials", "permission", "iam", "forbidden",
     "authentication", "authorization"}

\* text contains one of the credential terms, in any letter case
HasCredentialTerm(text) ==
    LET lower == ToLowerCase(text)
    IN  \E term \in CredentialTerms : Includes(lower, term)

\* text contains "blocked due to safety", in any letter case
HasSafetyTerm(text) == Includes(ToLowerCase(text), "blocked due to safety")

\* text contains "location is not supported", in any letter case
HasLocationTerm(text) == Includes(ToLowerCase(text), "location is not supported")

\* the message is the generic one: the raw failure text behind a prefix
IsGenericMessage(s) ==
    Includes(s, "AI Flow Error: ") \/ Includes(s, "Processing Error: ")

\* the message tells the user that safety filters rejected the image
IsSafetyMessage(s) ==
    Includes(ToLowerCase(s), "blocked by safety filters") /\ ~IsGenericMessage(s)

\* the message tells the user about a regional restriction
IsLocationMessage(s) ==
    Includes(ToLowerCase(s), "location is not supported") /\ ~IsGenericMessage(s)

\* C11: whenever the text of the failure of ai.generate contains a
\* credential term ("API key", credentials, permission, IAM, forbidden,
\* authentication, authorization) in any letter case, the error shown to the
\* user is in the credential/permission category.
C11_CredentialTermsAnyCase ==
    \A f \in Forms :
        (Failed(f) /\ HasCredentialTerm(ThrownText(cur[f].outcome.value))) =>
            IsCredentialMessage(formState[f].error.s)

\* C12: whenever the text of the failure contains "blocked due to safety"
\* (any letter case, whatever precedes it) and no credential term, the error
\* shown is in the safety-policy-rejection category.
C12_BlockedDueToSafetyIsSafety ==
    \A f \in Forms :
        (Failed(f) /\ HasSafetyTerm(ThrownText(cur[f].outcome.value))
            /\ ~HasCredentialTerm(ThrownText(cur[f].outcome.value))) =>
            IsSafetyMessage(formState[f].error.s)

\* C13: whenever the text of the failure contains "location is not
\* supported" (any letter case) and no credential or safety term, the error
\* of the result is in the regional-restriction category and not the
\* generic one.
C13_LocationIsRegionalRestriction ==
    \A f \in Forms :
        (Failed(f) /\ HasLocationTerm(ThrownText(cur[f].outcome.value))
            /\ ~HasCredentialTerm(ThrownText(cur[f].outcome.value))
            /\ ~HasSafetyTerm(ThrownText(cur[f].outcome.value))) =>
            IsLocationMessage(formState[f].error.s)

\* ai.generate resolved without an image
NoImage(o) == o.kind = "resolve" /\ (o.media = Null \/ o.media.url = "")

\* the error tells the user that the model returned no image
StatesNoImage(s) ==
    \/ Includes(ToLowerCase(s), "did not return an image")
    \/ Includes(ToLowerCase(s), "failed to return an image")

\* result reports a failure for want of an image
IsNoImageFailure(result) ==
    /\ ~Truthy(result.processedUrl)
    /\ IsString(result.error)
    /\ StatesNoImage(result.error.s)

\* every action reports an empty backgroundRemovedDataUri as such a failure
EmptyFlowResultIsFailure ==
    \A f \in Forms, r \in Revisions : IsNoImageFailure(EmptyFlowResult[f, r])

\* C14: when ai.generate resolves without media or with an empty media.url,
\* or the flow resolves with an empty backgroundRemovedDataUri, the result
\* has no processedUrl and an error saying that the model returned no
\* image.
C14_EmptyResultIsFailure ==
    /\ \A f \in Forms :
          (Completed(f) /\ NoImage(cur[f].outcome)) =>
              IsNoImageFailure(formState[f])
    /\ EmptyFlowResultIsFailure

\* C15: within one submission ai.generate is invoked at most once; once it
\* has failed or returned nothing the submission returns and the call is
\* not repeated.
C15_SingleShot ==
    \A f \in Forms :
        /\ cur[f].flowCalls <= 1
        /\ cur[f].outcome.kind # "none" =>
              (pc[f] = "idle" /\ cur[f].flowCalls = 1)

\* the call of an upload failed and the submission returned after that one
\* call
C15_Witness ==
    /\ Failed("upload")
    /\ cur["upload"].outcome.value = Str("quota exceeded")
    /\ cur["upload"].flowCalls = 1

IsPrefix(s, t) == Len(s) <= Len(t) /\ s = SubSeq(t, 1, Len(s))

\* the complete step sequences of a submission of form f
StepOrders(f) ==
    IF f = "url"
    THEN { <<"validate", "return">>,
           <<"validate", "generate", "return">>,
           <<"validate", "generate", "classify", "return">> }
    ELSE { <<"validate", "return">>,
           <<"validate", "read", "return">>,
           <<"validate", "read", "generate", "return">>,
           <<"validate", "read", "generate", "classify", "return">> }

\* the schema accepted the input of the latest submission of form f
ValidationSucceeded(f) ==
    IF f = "url" THEN UrlParse[cur[f].input].success
    ELSE ~NoFileSelected(cur[f].input, rev) /\ FileParse[cur[f].input, rev].success

\* C16: the steps of a submission run in the order validate, read (upload
\* only), external call, classify, return; the external call is issued only
\* after validation succeeded and the read completed, the result is
\* returned only after the call settled, and nothing of the submission is
\* pending once it has returned.
C16_StepsInOrder ==
    \A f \in Forms :
        cur[f].n > 0 =>
            /\ \E t \in StepOrders(f) : IsPrefix(cur[f].steps, t)
            /\ cur[f].flowCalls > 0 =>
                  /\ ValidationSucceeded(f)
                  /\ f = "upload" => cur[f].read = "ok"
            /\ pc[f] = "idle" <=> cur[f].steps[Len(cur[f].steps)] = "return"
            /\ pc[f] = "idle" =>
                  /\ cur[f].reads > 0 => cur[f].read # "none"
                  /\ cur[f].flowCalls > 0 => cur[f].outcome.kind # "none"

\* an upload went through all five steps
C16_Witness ==
    /\ Completed("upload")
    /\ cur["upload"].steps = <<"validate", "read", "generate", "classify", "return">>
    /\ cur["upload"].outcome.kind = "throw"

\* the joined reasons the file schema gives for the rejected payloads
ValidationErrors ==
    { Str(Join(FileParse[v, rev].formErrors)) :
        v \in {w \in FileFieldValues : ~FileParse[w, rev].success} }

\* the errors an upload returns after the external call failed
ExternalErrors == { Settled["upload", rev, o].error : o \in GenerateOutcomes }

\* C17: when reading the validated file fails, the upload returns the
\* "Failed to read the uploaded file" error, which is neither a validation
\* reason nor an error of the external call, has no processedUrl, and the
\* flow is not called.
C17_ReadFailureIsDistinct ==
    cur["upload"].read = "failed" =>
        /\ Completed("upload")
        /\ cur["upload"].flowCalls = 0
        /\ cur["upload"].steps = <<"validate", "read", "return">>
        /\ ~Truthy(formState["upload"].processedUrl)
        /\ IsString(formState["upload"].error)
        /\ StartsWith(formState["upload"].error.s, "Failed to read the uploaded file")
        /\ formState["upload"].error \notin ValidationErrors
        /\ formState["upload"].error \notin ExternalErrors

\* the read of the valid WebP file failed
C17_Witness ==
    /\ cur["upload"].read = "failed"
    /\ cur["upload"].input = File("cat.webp", 1024, "image/webp", "bytesCat")
    /\ FileIsValid(cur["upload"].input)
    /\ Completed("upload")

\* the latest submission of form f was rejected by the validator
Rejected(f) == Completed(f) /\ cur[f].reads = 0 /\ cur[f].flowCalls = 0

\* the raw submitted input as a rejection can echo it in originalUrl: the
\* submitted string, the name of the submitted file, nothing for an absent
\* field
RawInputEcho(input) ==
    IF IsString(input) THEN input
    ELSE IF IsFile(input) THEN Str(input.name)
    ELSE Undefined

\* the reasons the validator gave for the input of the latest submission
RejectionReasons(f) ==
    IF f = "url" THEN UrlParse[cur[f].input].formErrors
    ELSE FileParse[cur[f].input, rev].formErrors

\* C18: a result returned on validator rejection echoes the raw submitted
\* input as originalUrl (the URL string, the submitted file), carries the
\* joined validation reasons as error and has no processedUrl.
C18_RejectionEchoesRawInput ==
    \A f \in Forms :
        (Rejected(f) /\ ~NoFileSelected(cur[f].input, rev)) =>
            /\ formState[f].originalUrl = RawInputEcho(cur[f].input)
            /\ formState[f].error = Str(Join(RejectionReasons(f)))
            /\ ~Truthy(formState[f].processedUrl)

\* ai.generate of the latest submission of form f returned an image and
\* the submission has returned
Succeeded(f) ==
    /\ Completed(f)
    /\ cur[f].outcome.kind = "resolve"
    /\ ~NoImage(cur[f].outcome)

\* the image reference the action of form f sends to the model for input
ReferenceFor(f, input) == IF f = "url" THEN input ELSE originalDataUri(input)

\* C19: after a successful external call the result has no error, its
\* processedUrl is exactly the image reference the model returned, and its
\* originalUrl is the reference that was sent: the validated URL, or the
\* data URI built from the file.
C19_SuccessResult ==
    \A f \in Forms :
        Succeeded(f) =>
            /\ formState[f].error = Null
            /\ formState[f].processedUrl = Str(cur[f].outcome.media.url)
            /\ formState[f].originalUrl = cur[f].sent
            /\ cur[f].sent = ReferenceFor(f, cur[f].input)

\* an upload of the WebP file succeeded
C19_Witness ==
    /\ Succeeded("upload")
    /\ formState["upload"].processedUrl = Str("data:image/png;base64,iVBORw0KGgo=")
    /\ formState["upload"].originalUrl
          = StrB64("data:image/webp;base64,", "bytesCat", 1024)

\* v is a Processing Result: the four fields of ActionResultState
IsProcessingResult(v) ==
    /\ DOMAIN v = {"id", "originalUrl", "processedUrl", "error"}
    /\ v.id.t \in {"string", "undefined"}
    /\ v.originalUrl.t \in {"string", "undefined"}
    /\ v.processedUrl.t \in {"string", "null", "undefined"}
    /\ v.error.t \in {"string", "null", "undefined"}

\* C20: whatever the form input and however ai.generate settles (an image,
\* nothing, a thrown Error, string or object), the action resolves with a
\* Processing Result: what an action hands to its form is never anything
\* else.
C20_ActionsAlwaysResolve ==
    \A f \in Forms :
        /\ HasResult(f) => IsProcessingResult(formState[f])
        /\ cur[f].outcome.kind # "none" => Completed(f)

\* ai.generate threw a plain object on one form and null on the other, and
\* both submissions returned a result with an error
C20_Witness ==
    /\ Failed("url")
    /\ cur["url"].outcome.value.t = "object"
    /\ Failed("upload")
    /\ cur["upload"].outcome.value = Null
    /\ Truthy(formState["url"].error)
    /\ Truthy(formState["upload"].error)

\* the 6-bit value of each character of the alphabet
Base64Value ==
    [c \in CharsOf(Base64Alphabet) |->
        (CHOOSE i \in 1..Len(Base64Alphabet) : CharAt(Base64Alphabet, i) = c) - 1]

\* the bytes of a group of two, three or four characters
DecodeGroup(g) ==
    LET v(i) == IF i <= Len(g) THEN Base64Value[CharAt(g, i)] ELSE 0
    IN  <<v(1) * 4 + v(2) \div 16>>
          \o (IF Len(g) >= 3 THEN <<(v(2) % 16) * 16 + v(3) \div 4>> ELSE <<>>)
          \o (IF Len(g) >= 4 THEN <<(v(3) % 4) * 64 + v(4)>> ELSE <<>>)

\* Buffer.from(text, 'base64'): decoding ends at the first "=", and a last
\* single character holds no whole byte
Base64Decode(text) ==
    LET stop == FirstOf(text, {"="}, 1)
        data == SubSeq(text, 1, stop - 1)
        n    == (Len(data) + 3) \div 4
        last(i) == IF 4 * i <= Len(data) THEN 4 * i ELSE Len(data)
        bytes[i \in 0..n] ==
            IF i = 0 THEN <<>>
            ELSE IF last(i) - (4 * i - 4) < 2 THEN bytes[i - 1]
            ELSE bytes[i - 1] \o DecodeGroup(SubSeq(data, 4 * i - 3, last(i)))
    IN  bytes[n]

\* the base64 payload of a data URI text: what follows the first comma
PayloadOf(uri) == SubSeq(uri, FirstOf(uri, {","}, 1) + 1, Len(uri))

\* C21: for every valid file the data URI built by the upload action has
\* the form data:<declared type>;base64,<payload>, and base64-decoding the
\* payload gives back exactly the bytes of the file.
C21_DataUriRoundTrip ==
    probe.fn = "originalDataUri" =>
        /\ probe.out
              = "data:" \o probe.arg.type \o ";base64," \o PayloadOf(probe.out)
        /\ Len(Base64Decode(PayloadOf(probe.out))) = Len(probe.arg.bytes)
        /\ Base64Decode(PayloadOf(probe.out)) = probe.arg.bytes

\* the two bytes 77, 255 of a PNG file were encoded as "Tf8="
C21_Witness ==
    /\ probe.fn = "originalDataUri"
    /\ probe.arg.bytes = <<77, 255>>
    /\ probe.out = "data:image/png;base64,Tf8="

\* the result the latest submission of form f gets when it runs alone
\* with its own input, its own read and its own outcome of ai.generate
AloneResult(f) ==
    LET c == cur[f]
    IN  IF f = "url"
        THEN IF ~UrlParse[c.input].success
             THEN UrlRejected(c.uniqueId, c.input, UrlParse[c.input].formErrors, rev)
             ELSE [Settled["url", rev, c.outcome] EXCEPT !.originalUrl = c.input]
        ELSE IF ~ValidationSucceeded("upload")
             THEN UploadRejected(c.uniqueId, c.input,
                                 FileParse[c.input, rev].formErrors, rev)
             ELSE IF c.read = "failed"
             THEN Result(c.uniqueId, Str(c.input.name), Null,
                         Str(ReadFailedMessage(rev)))
             ELSE [Settled["upload", rev, c.outcome]
                       EXCEPT !.originalUrl = originalDataUri(c.input)]

\* C22: whatever the interleaving of two submissions, the originalUrl,
\* processedUrl and error of each result are the ones the submission gets
\* alone with the same input and the same response of its own external
\* call.
C22_ConcurrentSubmissionsIndependent ==
    \A f \in Forms :
        Completed(f) =>
            /\ formState[f].originalUrl = AloneResult(f).originalUrl
            /\ formState[f].processedUrl = AloneResult(f).processedUrl
            /\ formState[f].error = AloneResult(f).error

\* the upload was submitted while the URL submission was running; the URL
\* submission succeeded and the upload failed
C22_Witness ==
    /\ cur["upload"].overlap
    /\ Succeeded("url")
    /\ Failed("upload")
    /\ cur["url"].n = 1
    /\ cur["upload"].n = 1
    /\ formState["url"].originalUrl = cur["url"].input
    /\ formState["upload"].originalUrl = originalDataUri(cur["upload"].input)

\* the forms whose effect is about to hand a result to onImageProcessed
\* for the first time
FirstDeliveries ==
    { f \in Forms : /\ effectDue[f]
                    /\ EffectBranch(formState[f]) = "success"
                    /\ notified[f].callbacks = 0 }

\* C23: the images list of Home is append-only: as long as Clear All
\* Images was never clicked, every entry stays in the list as it was added,
\* and each successful submission handed to handleImageProcessed makes the
\* list one entry longer.
C23_ImagesAppendOnly ==
    [][(clears = 0 /\ clears' = 0) =>
          /\ \A i \in 1..Len(images) :
                \E j \in 1..Len(images') : images'[j] = images[i]
          /\ notified' # notified =>
                Len(images') = Len(images) + Cardinality(FirstDeliveries)]_vars

\* C26: after Clear All Images the list stays empty until a new submission
\* completes successfully: an entry that enters the empty list is the
\* result of a submission delivered for the first time.
C26_ClearedListStaysEmpty ==
    [][(clears > 0 /\ images = <<>> /\ images' # <<>>) =>
          \A i \in 1..Len(images') :
              \E f \in FirstDeliveries : images'[i].id = formState[f].id]_vars

\* C27: for the state a form holds, the toast and (on success) the
\* onImageProcessed callback fire exactly once: never twice, and once all
\* effects have run, once for every state that carries a result.
C27_ReportedExactlyOnce ==
    \A f \in Forms :
        /\ notified[f].toasts <= 1
        /\ notified[f].callbacks <= 1
        /\ (HasResult(f) /\ EffectsFlushed) =>
              /\ notified[f].toasts = 1
              /\ notified[f].callbacks
                    = (IF Truthy(formState[f].processedUrl) THEN 1 ELSE 0)

\* the submissions that have been started and have not returned
Pending == {f \in Forms : pc[f] # "idle"}

\* C24: a submission stays pending while its external call is pending and
\* returns only in the step in which that call settles; every submission
\* returns exactly one result; and, every issued call settling
\* eventually, every submission eventually returns.
C24_SubmissionsReturnOnce ==
    /\ [](Len(returned) + Cardinality(Pending) = submissions)
    /\ [][\A f \in Forms :
            /\ (pc[f] = "awaitGenerate" /\ pc'[f] # "awaitGenerate") =>
                  /\ pc'[f] = "idle"
                  /\ cur[f].outcome = NoOutcome
                  /\ cur'[f].outcome # NoOutcome
                  /\ Len(returned') = Len(returned) + 1
            /\ (pc[f] = "awaitRead" /\ pc'[f] # "awaitRead") =>
                  /\ cur[f].read = "none"
                  /\ cur'[f].read # "none"
                  /\ pc'[f] = "idle" <=> cur'[f].read = "failed"]_vars
    /\ \A f \in Forms : (pc[f] # "idle") ~> (pc[f] = "idle")

\* both forms were submitted, the flow of one of them failed, and every
\* submission has returned
C24_Witness ==
    /\ Pending = {}
    /\ \A f \in Forms : cur[f].n > 0
    /\ \E f \in Forms : cur[f].outcome.kind = "throw"
    /\ Len(returned) = submissions

\* value v has a message-like field that holds a text: the message of an
\* Error, the string message of an object
HasMessage(v) ==
    \/ IsError(v) /\ v.message # ""
    \/ v.t = "object" /\ ~v.hostile /\ IsString(v.message) /\ v.message.s # ""

MessageOf(v) == IF IsError(v) THEN v.message ELSE v.message.s

IsSuffix(s, t) ==
    Len(s) <= Len(t) /\ s = SubSeq(t, Len(t) - Len(s) + 1, Len(t))

\* the functions that extract the text of a thrown value
ExtractionFunctions ==
    {"safeStringifyError", "extractErrorMessage", "extractErrorMessage5"}

\* C25: for a thrown value with a message and a nested cause that is an
\* Error or an object with a string message, the extracted text is the
\* message followed by the message of the cause, without the message of a
\* cause of the cause; for a value with a message and no cause it is the
\* message alone.
C25_CauseAppendedOneLevel ==
    (probe.fn \in ExtractionFunctions /\ HasMessage(probe.arg)) =>
        LET v == probe.arg
        IN  IF Truthy(v.cause) /\ HasMessage(v.cause)
            THEN /\ IsPrefix(MessageOf(v), probe.out)
                 /\ Len(probe.out) > Len(MessageOf(v))
                 /\ IsSuffix(MessageOf(v.cause), probe.out)
                 /\ (Truthy(v.cause.cause) /\ HasMessage(v.cause.cause)) =>
                        ~Includes(probe.out, MessageOf(v.cause.cause))
            ELSE ~Truthy(v.cause) => probe.out = MessageOf(v)

\* the three beginnings of the message of a flow failure
FlowPrefixes ==
    {"API Key or Permissions Error: ",
     "Image processing was blocked by safety filters.",
     "AI Flow Error: "}

\* the value the catch block of the flow caught for outcome o
CaughtByFlow(o) == IF o.kind = "throw" THEN o.value ELSE NoMediaError(o.text)

\* the flow of the latest submission of form f has settled with a failure
FlowFailed(f) == cur[f].outcome.kind # "none" /\ FlowCatches(cur[f].outcome)

\* the outcomes of ai.generate whose failure text passes both the
\* credential test and the safety test of the flow
PassesBothTests ==
    {o \in GenerateOutcomes :
        /\ FlowCatches(o)
        /\ isApiKeyError(safeStringifyError(CaughtByFlow(o)))
        /\ isSafetyError(safeStringifyError(CaughtByFlow(o)))}

\* the outcomes of ai.generate for which the flow rejects with an Error
\* whose message begins with exactly one of the three prefixes, the
\* credential prefix when both tests pass
ClassifiedRejections ==
    {o \in GenerateOutcomes :
        LET settled == FlowSettled[o]
        IN  /\ settled.kind = "throw"
            /\ IsError(settled.value)
            /\ Cardinality({p \in FlowPrefixes :
                                StartsWith(settled.value.message, p)}) = 1
            /\ o \in PassesBothTests =>
                   StartsWith(settled.value.message, "API Key or Permissions Error: ")}

GenericNoImageRejections ==
    {o \in GenerateOutcomes :
        /\ NoImage(o)
        /\ FlowSettled[o].kind = "throw"
        /\ StartsWith(FlowSettled[o].value.message,
                      "AI Flow Error: AI model did not return an image")}

\* C29: when the model returns no image, the flow rejects with the generic
\* message "AI Flow Error: AI model did not return an image ...", whatever
\* text the model returned.
C29_NoImageIsGeneric ==
    \A f \in Forms :
        (FlowFailed(f) /\ NoImage(cur[f].outcome)) =>
            cur[f].outcome \in GenericNoImageRejections

\* term occurs in text with no letter next to it on either side
OccursAsTerm(text, term) ==
    \E i \in 1..(Len(text) - Len(term) + 1) :
        /\ SubSeq(text, i, i + Len(term) - 1) = term
        /\ i > 1 => ~Includes(LowerLetters, CharAt(text, i - 1))
        /\ i + Len(term) <= Len(text) =>
               ~Includes(LowerLetters, CharAt(text, i + Len(term)))

\* the outcomes of ai.generate whose failure text contains a credential
\* term, or a keyword of the flow, as a term, in any letter case
NamesCredentialTerm ==
    {o \in GenerateOutcomes :
        /\ FlowCatches(o)
        /\ LET lower == ToLowerCase(safeStringifyError(CaughtByFlow(o)))
           IN  \/ \E term \in CredentialTerms : OccursAsTerm(lower, term)
               \/ \E i \in 1..Len(apiKeyErrorKeywords) :
                      OccursAsTerm(lower, apiKeyErrorKeywordsLower[i])}

\* the outcomes of ai.generate that the flow puts in the credential category
CredentialRejections ==
    {o \in GenerateOutcomes :
        /\ FlowSettled[o].kind = "throw"
        /\ StartsWith(FlowSettled[o].value.message, "API Key or Permissions Error: ")}

\* C30: a failure is put in the credential/permission category, by the flow
\* or in the error of the result, only when its text contains a credential
\* term as a term, not as a part of another word.
C30_CredentialOnlyForTerms ==
    \A f \in Forms :
        (Failed(f) /\ cur[f].outcome \notin NamesCredentialTerm) =>
            /\ cur[f].outcome \notin CredentialRejections
            /\ ~IsCredentialMessage(formState[f].error.s)

====
